---- MODULE Spec2Model ----
(***************************************************************************)
(* rpysight: the offline ttbin converter (rpysight/ttbin_to_pysight_pickle) *)
(* and its overflow reconciliation (Spec), the live streaming measurement   *)
(* RealTimeRendering (SpecRT) and the demultiplexing set-up of run_tagger   *)
(* (SpecDemux), both of rpysight/call_timetagger, its channel inference    *)
(* infer_channel_list_from_cfg (SpecInfer), and the histogram measurement   *)
(* CustomStartMultipleStop of librpysight-parse: its lock (SpecCsms) and    *)
(* its fast_process loop (SpecFast).                                        *)
(*                                                                          *)
(* numpy arrays are modelled as records [dtype, data]: `data` is a sequence *)
(* (TLA+ index i+1 holds python index i) and `dtype` is the element type.   *)
(* A bool array holds 0 (False) and 1 (True), as numpy stores it.           *)
(***************************************************************************)
EXTENDS Integers, Sequences, FiniteSets, TLC

\* ---------------------------------------------------------------- bounds
\* longest .ttbin file (number of events) the reader is given
MaxEvents == 4

\* ------------------------------------------------------ program constants
\* ttbin_to_pysight_pickle.py:23
EVENTS_PER_BATCH == 1000000
\* old_ttbin2pickle.py:60  TimeTag = 0, Error = 1, OverflowBegin = 2,
\* OverflowEnd = 3, MissedEvents = 4
TimeTag == 0
Error == 1
OverflowBegin == 2
OverflowEnd == 3
MissedEvents == 4
\* largest value of the dtype of data.getEventTypes() (one unsigned byte,
\* the width call_timetagger.py:102-105 hands to pa.uint8())
UINT8_MAX == 255

EventKind == {TimeTag, Error, OverflowBegin, OverflowEnd, MissedEvents}

\* ------------------------------------------------------------ numpy values
None == [dtype |-> "NoneType", data |-> <<>>]
Unbound == [dtype |-> "unbound", data |-> <<>>]
BoolArray(d) == [dtype |-> "bool", data |-> d]
UInt8Array(d) == [dtype |-> "uint8", data |-> d]
UInt64Array(d) == [dtype |-> "uint64", data |-> d]

Min(a, b) == IF a < b THEN a ELSE b

\* the elements of a finite set of integers, in increasing order
RECURSIVE Ascending(_)
Ascending(S) ==
    IF S = {} THEN <<>>
    ELSE LET m == CHOOSE x \in S : \A y \in S : x <= y
         IN <<m>> \o Ascending(S \ {m})

\* np.where(a == v)[0]: the python indices holding v, increasing
np_where(a, v) == Ascending({i \in 0 .. Len(a) - 1 : a[i + 1] = v})

\* np.full(length, False)
np_full_False(length) == [i \in 1 .. length |-> 0]

\* overflows[lo:hi] = True, for 0 <= lo, 0 <= hi (a slice is clipped to the
\* array and an empty slice assigns nothing)
SetSlice(overflows, lo, hi) ==
    [i \in 1 .. Len(overflows) |->
        IF lo <= i - 1 /\ i - 1 < hi THEN 1 ELSE overflows[i]]

\* ------------------------------------------- the overflow reconciliation
\* for st, en in zip(starts, ends): overflows[st:en] = True
RECURSIVE ZipPairs(_, _, _, _)
ZipPairs(starts, ends, overflows, k) ==
    IF k > Min(Len(starts), Len(ends)) THEN overflows
    ELSE ZipPairs(starts, ends, SetSlice(overflows, starts[k], ends[k]), k + 1)

_iter_over_start_end_pairs(starts, ends, overflows) ==
    ZipPairs(starts, ends, overflows, 1)

even_overflows(starts, ends, length) ==
    _iter_over_start_end_pairs(starts, ends, np_full_False(length))

less_end_overflows(starts, ends, length) ==
    LET overflows == _iter_over_start_end_pairs(starts, ends, np_full_False(length))
    IN SetSlice(overflows, starts[Len(starts)], length)

more_end_overflows(starts, ends, length) ==
    LET overflows == _iter_over_start_end_pairs(starts, Tail(ends), np_full_False(length))
    IN SetSlice(overflows, 0, ends[1])

\* get_overflow_indices(event_type): what the call raises ("" when it
\* returns) and the value it returns.  The two uneven branches call their
\* helper and drop its result (`dropped`): the function falls off its end
\* and returns None.  np.full_like(event_type, False) has the dtype of event_type.
get_overflow_indices(event_type) ==
    LET overflow_indices_start == np_where(event_type, OverflowBegin)
        total_length == Len(event_type)
        starts_len == Len(overflow_indices_start)
        overflow_indices_end == np_where(event_type, OverflowEnd)
        ends_len == Len(overflow_indices_end)
    IN IF starts_len > 0
       THEN IF ends_len = starts_len
            THEN [raised |-> "",
                  value |-> BoolArray(even_overflows(overflow_indices_start,
                                          overflow_indices_end, total_length))]
            ELSE IF ends_len < starts_len
            THEN IF ends_len + 1 = starts_len
                 THEN [raised |-> "", value |-> None,
                       dropped |-> less_end_overflows(overflow_indices_start,
                                       overflow_indices_end, total_length)]
                 ELSE [raised |-> "AssertionError", value |-> Unbound]
            ELSE IF ends_len = starts_len + 1
                 THEN [raised |-> "", value |-> None,
                       dropped |-> more_end_overflows(overflow_indices_start,
                                       overflow_indices_end, total_length)]
                 ELSE [raised |-> "AssertionError", value |-> Unbound]
       ELSE [raised |-> "",
             value |-> UInt8Array([i \in 1 .. total_length |-> 0])]

\* ~a : logical not of a bool array, bitwise not of an unsigned byte array,
\* TypeError for None
Invert(a) ==
    IF a.dtype = "bool"
    THEN [raised |-> "", value |-> BoolArray([i \in 1 .. Len(a.data) |-> 1 - a.data[i]])]
    ELSE IF a.dtype = "uint8"
    THEN [raised |-> "",
          value |-> UInt8Array([i \in 1 .. Len(a.data) |-> UINT8_MAX - a.data[i]])]
    ELSE [raised |-> "TypeError", value |-> Unbound]

\* the elements of arr at the positions where the bool sequence m holds 1
RECURSIVE Compress(_, _)
Compress(arr, m) ==
    IF arr = <<>> THEN <<>>
    ELSE (IF Head(m) = 1 THEN <<Head(arr)>> ELSE <<>>) \o Compress(Tail(arr), Tail(m))

\* arr[idx] for a numpy index array: a bool array selects the rows where it
\* is True; an integer array picks arr[idx[j]] for every j and raises
\* IndexError when an index is outside the array
Take(arr, idx) ==
    IF idx.dtype = "bool"
    THEN [raised |-> "", value |-> UInt64Array(Compress(arr.data, idx.data))]
    ELSE IF \E j \in 1 .. Len(idx.data) : idx.data[j] >= Len(arr.data)
    THEN [raised |-> "IndexError", value |-> Unbound]
    ELSE [raised |-> "",
          value |-> UInt64Array([j \in 1 .. Len(idx.data) |-> arr.data[idx.data[j] + 1]])]

\* ------------------------------------------------------------------ state
VARIABLES
    ttbin,             \* the event types stored in the file FileReader reads
    pos,               \* number of events FileReader has handed out
    event_type,        \* loop_over_ttbins: data.getEventTypes()
    overflow_indices,  \* loop_over_ttbins: result of get_overflow_indices
    timestamps,        \* loop_over_ttbins: timestamps
    channels,          \* loop_over_ttbins: channels
    pc                 \* "loop", "done", or the exception that ended the run

\* RealTimeRendering (call_timetagger.py) and the backend that drives it
VARIABLES
    tags,              \* the tag stream the Time Tagger backend will deliver
    rt_pos,            \* number of tags handed to process() so far
    blocks,            \* number of data blocks handed to process() so far
    rt_pc,             \* "new" before __init__, "ready" after finalize_init,
                       \* "stopped" once the measurement was stopped
    sink,              \* the messages written to self.socketfile, in order
    stream_open,       \* self.stream and the socket under it are open
    self_refs          \* the tag storages the measurement refers to
                       \* between two calls

\* set_tt_for_demuxing / run_tagger (call_timetagger.py) and the hardware
VARIABLES
    config,            \* the parsed TOML configuration
    first_edge,        \* time of the first laser edge of the acquisition
    creation_order,    \* simultaneous events: handled in channel creation order
    dm_pc,             \* "setup" before run_tagger configured the tagger
    delayed_channels,  \* set_tt_for_demuxing: the DelayedChannel delays
    new_channels,      \* set_tt_for_demuxing: the GatedChannel start/stop
    dm_now,            \* time of the latest event on the gated input
    dm_out             \* the tags the backend delivered for that event

\* infer_channel_list_from_cfg (call_timetagger.py) and its caller
VARIABLES
    pysight_cfg,       \* the eight `*_ch` entries of the configuration
    channels_list,     \* what infer_channel_list_from_cfg returned
    infer_pc           \* "call" before the call, "returned" after it

\* CustomStartMultipleStop (librpysight-parse call_timetagger.py), the backend
\* thread that drives it and the thread that reads it
VARIABLES
    lock,                  \* holder of the measurement lock, or "free"
    backend_pc,            \* backend thread: "idle", or "locked" in a callback
    reader_pc,             \* reader thread: its position in getData
    data,                  \* self.data
    last_start_timestamp,  \* self.last_start_timestamp
    arr,                   \* what getData returned last
    stdout                 \* what process printed, in order

\* CustomStartMultipleStop.fast_process, tag by tag
VARIABLES
    fp_tags,               \* fast_process: the argument tags
    fp_i,                  \* number of tags the for loop has handled
    fp_data,               \* fast_process: the argument data, updated in place
    fp_last,               \* fast_process: the local last_start_timestamp
    fp_pc                  \* "loop" inside the for loop, "returned" after it

ttbinVars == <<ttbin, pos, event_type, overflow_indices, timestamps, channels, pc>>
rtVars == <<tags, rt_pos, blocks, rt_pc, sink, stream_open, self_refs>>
demuxVars == <<config, first_edge, creation_order, dm_pc, delayed_channels,
               new_channels, dm_now, dm_out>>
inferVars == <<pysight_cfg, channels_list, infer_pc>>
csmsVars == <<lock, backend_pc, reader_pc, data, last_start_timestamp, arr, stdout>>
fastVars == <<fp_tags, fp_i, fp_data, fp_last, fp_pc>>
vars == <<ttbinVars, rtVars, demuxVars, inferVars, csmsVars, fastVars>>

\* what each sub-program leaves alone
notTtbin == <<rtVars, demuxVars, inferVars, csmsVars, fastVars>>
notRT == <<ttbinVars, demuxVars, inferVars, csmsVars, fastVars>>
notDemux == <<ttbinVars, rtVars, inferVars, csmsVars, fastVars>>
notInfer == <<ttbinVars, rtVars, demuxVars, csmsVars, fastVars>>
notFast == <<ttbinVars, rtVars, demuxVars, inferVars, csmsVars>>
notCsms == <<ttbinVars, rtVars, demuxVars, inferVars, fastVars>>

\* the parts of the state a specification does not exercise
ttbinIdle ==
    /\ ttbin = <<>> /\ pos = 0 /\ event_type = <<>>
    /\ overflow_indices = Unbound /\ timestamps = Unbound
    /\ channels = Unbound /\ pc = "idle"
rtIdle ==
    /\ tags = <<>> /\ rt_pos = 0 /\ blocks = 0 /\ rt_pc = "idle" /\ sink = <<>>
    /\ stream_open = FALSE /\ self_refs = {}
demuxIdle ==
    /\ config = [period |-> 0, periods |-> 0, demultiplex |-> FALSE]
    /\ first_edge = 0 /\ creation_order = FALSE /\ dm_pc = "idle"
    /\ delayed_channels = <<>> /\ new_channels = <<>>
    /\ dm_now = 0 /\ dm_out = {}

inferIdle ==
    /\ pysight_cfg = <<>> /\ channels_list = <<>> /\ infer_pc = "idle"
csmsIdle ==
    /\ lock = "free" /\ backend_pc = "absent" /\ reader_pc = "absent"
    /\ data = Unbound /\ last_start_timestamp = 0
    /\ arr = [returned |-> FALSE, owndata |-> TRUE, data |-> <<>>]
    /\ stdout = <<>>
fastIdle ==
    /\ fp_tags = <<>> /\ fp_i = 0 /\ fp_data = Unbound /\ fp_last = 0
    /\ fp_pc = "idle"
notFastIdle == ttbinIdle /\ rtIdle /\ demuxIdle /\ inferIdle /\ csmsIdle
notTtbinIdle == rtIdle /\ demuxIdle /\ inferIdle /\ csmsIdle /\ fastIdle
notRTIdle == ttbinIdle /\ demuxIdle /\ inferIdle /\ csmsIdle /\ fastIdle
notDemuxIdle == ttbinIdle /\ rtIdle /\ inferIdle /\ csmsIdle /\ fastIdle
notInferIdle == ttbinIdle /\ rtIdle /\ demuxIdle /\ csmsIdle /\ fastIdle
notCsmsIdle == ttbinIdle /\ rtIdle /\ demuxIdle /\ inferIdle /\ fastIdle

\* the file's columns: the event at (1-based) position i carries the time
\* 10*i, and a TimeTag is on channel 5 while marker rows carry channel 0.
\* Both are non-negative, so .astype(np.uint64) leaves them unchanged.
getTimestamps(first, n) == UInt64Array([i \in 1 .. n |-> 10 * (first + i)])
getChannels(first, n) ==
    UInt64Array([i \in 1 .. n |-> IF ttbin[first + i] = TimeTag THEN 5 ELSE 0])
getEventTypes(first, n) == SubSeq(ttbin, first + 1, first + n)

\* reader.hasData()
hasData == pos < Len(ttbin)

RECURSIVE SeqsUpTo(_)
SeqsUpTo(n) ==
    IF n = 0 THEN {<<>>}
    ELSE LET shorter == SeqsUpTo(n - 1)
         IN shorter \cup {Append(s, k) : s \in {t \in shorter : Len(t) = n - 1},
                                          k \in EventKind}

Init ==
    /\ ttbin \in SeqsUpTo(MaxEvents)
    /\ pos = 0
    /\ event_type = <<>>
    /\ overflow_indices = Unbound
    /\ timestamps = Unbound
    /\ channels = Unbound
    /\ pc = "loop"
    /\ notTtbinIdle

\* one iteration of the while loop of loop_over_ttbins.  getData hands out
\* the next n events, at most EVENTS_PER_BATCH and at most what is left, so
\* a batch boundary can fall between any two events of the file.
loop_over_ttbins(n) ==
    /\ pc = "loop"
    /\ hasData
    /\ n <= Min(EVENTS_PER_BATCH, Len(ttbin) - pos)
    /\ LET ts == getTimestamps(pos, n)
           ch == getChannels(pos, n)
           et == getEventTypes(pos, n)
           goi == get_overflow_indices(et)
           inv == Invert(goi.value)
           tsf == Take(ts, inv.value)
           chf == Take(ch, inv.value)
       IN /\ pos' = pos + n
          /\ event_type' = et
          /\ IF goi.raised # ""
             THEN /\ pc' = goi.raised
                  /\ overflow_indices' = overflow_indices
                  /\ timestamps' = ts
                  /\ channels' = ch
             ELSE /\ overflow_indices' = goi.value
                  /\ IF inv.raised # ""
                     THEN pc' = inv.raised /\ timestamps' = ts /\ channels' = ch
                     ELSE IF tsf.raised # ""
                     THEN pc' = tsf.raised /\ timestamps' = ts /\ channels' = ch
                     ELSE pc' = "loop" /\ timestamps' = tsf.value /\ channels' = chf.value
    /\ UNCHANGED <<ttbin, notTtbin>>

\* reader.hasData() is false: the loop ends
loop_exit ==
    /\ pc = "loop"
    /\ ~hasData
    /\ pc' = "done"
    /\ UNCHANGED <<ttbin, pos, event_type, overflow_indices, timestamps, channels>>
    /\ UNCHANGED notTtbin

Next ==
    \/ \E n \in 1 .. MaxEvents : loop_over_ttbins(n)
    \/ loop_exit

Spec == Init /\ [][Next]_vars

TypeOK ==
    /\ pos \in 0 .. Len(ttbin)
    /\ pc \in {"loop", "done", "AssertionError", "TypeError", "IndexError"}
    /\ overflow_indices.dtype \in {"unbound", "NoneType", "bool", "uint8"}

\* ======================================================================
\* Properties
\* ======================================================================
\* The converter keeps no state between two batches.  What the design calls
\* OverflowState.open on entry to a batch is read off the stream: the events
\* handed out before the batch left an overflow region unclosed.
RECURSIVE OpenAfter(_, _)
OpenAfter(kinds, open) ==
    IF kinds = <<>> THEN open
    ELSE OpenAfter(Tail(kinds),
                   IF Head(kinds) = OverflowBegin THEN TRUE
                   ELSE IF Head(kinds) = OverflowEnd THEN FALSE
                   ELSE open)

BatchFirst == pos - Len(event_type)
OpenOnEntry == OpenAfter(SubSeq(ttbin, 1, BatchFirst), FALSE)
Count(kinds, k) == Cardinality({i \in 1 .. Len(kinds) : kinds[i] = k})
Begins == Count(event_type, OverflowBegin)
Ends == Count(event_type, OverflowEnd)

\* a batch was taken from the reader and get_overflow_indices returned for it
Processed == Len(event_type) > 0
Sanitized == Processed /\ pc # "AssertionError"
\* the batch has one overflow flag per row (a bool array, or the all-zero
\* array of the no-OverflowBegin branch read as "no row is flagged")
HasFlags ==
    /\ overflow_indices.dtype \in {"bool", "uint8"}
    /\ Len(overflow_indices.data) = Len(event_type)
\* row i (1-based) of the batch is kept by the validity mask ~overflow_indices
Valid(i) == overflow_indices.data[i] = 0
Running == pc \in {"loop", "done"}

\* row i of the batch lies inside an overflow region, markers included
InRegion(i) ==
    \/ event_type[i] \in {OverflowBegin, OverflowEnd}
    \/ OpenAfter(SubSeq(event_type, 1, i), OpenOnEntry)

\* C1: sanitizing a logical batch (the file) in two consecutive sub-batches
\* gives the concatenation of the two masks equal to the mask of sanitizing
\* it whole, for every split point: when the whole batch yields a mask, the
\* first sub-batch is sanitized without an exception and the second one
\* completes the same mask.
WholeResult == get_overflow_indices(ttbin)
WholeIsMask == WholeResult.raised = "" /\ WholeResult.value.dtype = "bool"
C1_SplitSameMask ==
    [][ /\ (pos = 0 /\ pos' > 0 /\ pos' < Len(ttbin) /\ WholeIsMask)
            => (pc' = "loop" /\ overflow_indices'.dtype = "bool")
        /\ (/\ Processed /\ BatchFirst = 0 /\ pos < Len(ttbin)
            /\ pos' = Len(ttbin) /\ WholeIsMask)
            => /\ pc' = "loop"
               /\ overflow_indices.dtype = "bool"
               /\ overflow_indices'.dtype = "bool"
               /\ overflow_indices.data \o overflow_indices'.data
                      = WholeResult.value.data ]_vars

\* C2: for every batch that is sanitized and filtered, the rows emitted
\* downstream (timestamps[~overflow_indices]) are exactly the TimeTag rows
\* outside every overflow region: their number is the number of such rows,
\* and no Error, OverflowBegin, OverflowEnd or MissedEvents row is emitted.
RowTime(i) == 10 * (BatchFirst + i)
C2_OnlyTimeTagsOutsideRegions ==
    (Processed /\ Running) =>
        /\ Len(timestamps.data)
             = Cardinality({i \in 1 .. Len(event_type) :
                               event_type[i] = TimeTag /\ ~InRegion(i)})
        /\ \A i \in 1 .. Len(event_type) :
               event_type[i] # TimeTag
                   => \A j \in 1 .. Len(timestamps.data) :
                          timestamps.data[j] # RowTime(i)

\* C3: a batch without OverflowBegin and OverflowEnd, entered outside an
\* overflow region, gets the mask (kind != Error) position by position.
C3_FastPathMask ==
    (Sanitized /\ Begins = 0 /\ Ends = 0 /\ ~OpenOnEntry) =>
        /\ HasFlags
        /\ \A i \in 1 .. Len(event_type) : Valid(i) <=> event_type[i] # Error

\* C4: a batch whose last row is an unmatched OverflowBegin is sanitized
\* and the run goes on to the following batch; when that batch starts with
\* an OverflowEnd at index 0 it is sanitized too, index 0 is invalid and
\* the TimeTag rows after it, up to the next OverflowBegin, stay valid.
EndsWithBegin(kinds) == kinds # <<>> /\ kinds[Len(kinds)] = OverflowBegin
C4_BoundaryRegion ==
    [][ /\ (pos' > pos /\ EndsWithBegin(event_type') /\ pos' < Len(ttbin))
            => pc' = "loop"
        /\ (/\ Processed /\ EndsWithBegin(event_type) /\ pos' > pos
            /\ event_type'[1] = OverflowEnd)
            => /\ pc' = "loop"
               /\ overflow_indices'.dtype \in {"bool", "uint8"}
               /\ overflow_indices'.data[1] = 1
               /\ \A i \in 2 .. Len(event_type') :
                      (/\ event_type'[i] = TimeTag
                       /\ \A j \in 2 .. i : event_type'[j] # OverflowBegin)
                      => overflow_indices'.data[i] = 0 ]_vars

\* C5: in a batch entered outside an overflow region, every row from an
\* OverflowBegin through the OverflowEnd that closes it, both markers
\* included, is invalid; [OverflowBegin, TimeTag, TimeTag, OverflowEnd]
\* gets the mask [false, false, false, false].
ClosedBy(b, e) ==
    /\ b < e
    /\ event_type[b] = OverflowBegin
    /\ event_type[e] = OverflowEnd
    /\ \A j \in b + 1 .. e - 1 : event_type[j] # OverflowEnd
C5_PairInclusive ==
    (Sanitized /\ ~OpenOnEntry) =>
        /\ \A b, e \in 1 .. Len(event_type) :
               ClosedBy(b, e) => (HasFlags /\ \A i \in b .. e : ~Valid(i))
        /\ event_type = <<OverflowBegin, TimeTag, TimeTag, OverflowEnd>>
               => (HasFlags /\ overflow_indices.data = <<1, 1, 1, 1>>)

\* C6: a batch entered inside an overflow region has every row before its
\* first OverflowEnd invalid, and every row invalid when it holds no
\* OverflowEnd.
FirstEnd ==
    IF Ends = 0 THEN Len(event_type) + 1
    ELSE CHOOSE e \in 1 .. Len(event_type) :
             /\ event_type[e] = OverflowEnd
             /\ \A j \in 1 .. e - 1 : event_type[j] # OverflowEnd
C6_CarriedRegionInvalid ==
    (Sanitized /\ OpenOnEntry) =>
        (HasFlags /\ \A i \in 1 .. FirstEnd - 1 : ~Valid(i))

\* C7: an accepted batch that leaves a region unclosed (one more
\* OverflowBegin than OverflowEnd, the carried-in region counted as a
\* begin) has every row from its last OverflowBegin to its end invalid.
Carry == IF OpenOnEntry THEN 1 ELSE 0
LastBegin ==
    CHOOSE b \in 1 .. Len(event_type) :
        /\ event_type[b] = OverflowBegin
        /\ \A j \in b + 1 .. Len(event_type) : event_type[j] # OverflowBegin
C7_OpenTailInvalid ==
    (Sanitized /\ Begins > 0 /\ Begins + Carry = Ends + 1) =>
        (HasFlags /\ \A i \in LastBegin .. Len(event_type) : ~Valid(i))

\* C8: for every batch get_overflow_indices accepts, also one with one more
\* OverflowBegin than OverflowEnd or one more OverflowEnd than
\* OverflowBegin, it returns one flag per row of the batch.
C8_MaskPerRow == Sanitized => HasFlags

\* C9: a batch whose OverflowBegin and OverflowEnd counts differ by two or
\* more, the carried-in region counted as a begin, is rejected:
\* get_overflow_indices raises and returns nothing for it.
Abs(x) == IF x < 0 THEN 0 - x ELSE x
C9_MismatchRejected ==
    (Processed /\ Abs(Begins + Carry - Ends) >= 2) => pc = "AssertionError"

\* C10: a batch with one more OverflowEnd than OverflowBegin that is
\* entered outside an overflow region is rejected.
C10_ExtraEndNeedsCarry ==
    (Processed /\ Ends = Begins + 1 /\ ~OpenOnEntry) => pc = "AssertionError"

\* C25 as stated: in a batch entered inside an overflow region, with as
\* many OverflowBegin as OverflowEnd and its first OverflowEnd before its
\* first OverflowBegin, the rows before the first OverflowEnd and the rows
\* from the last OverflowBegin to the end of the batch are invalid.
FirstBegin ==
    CHOOSE b \in 1 .. Len(event_type) :
        /\ event_type[b] = OverflowBegin
        /\ \A j \in 1 .. b - 1 : event_type[j] # OverflowBegin
C25_EndBeforeBegin ==
    (/\ Processed /\ OpenOnEntry
     /\ Begins > 0 /\ Begins = Ends /\ FirstEnd < FirstBegin) =>
        /\ HasFlags
        /\ \A i \in 1 .. FirstEnd - 1 : ~Valid(i)
        /\ \A i \in LastBegin .. Len(event_type) : ~Valid(i)

\* ======================================================================
\* RealTimeRendering: streaming the live tags as Arrow record batches
\* ======================================================================
\* most tags the backend delivers in one acquisition
MaxTags == 3
\* most data blocks (process calls) of one acquisition
MaxBlocks == 4

\* the rows of incoming_tags: a TimeTag comes from channel 1 or -2 (the sign
\* is the edge), a marker row carries channel 0, and only a MissedEvents row
\* counts missed events
TagShapes ==
    {[type |-> TimeTag, missed_events |-> 0, channel |-> c] : c \in {1, 0 - 2}}
    \cup {[type |-> k, missed_events |-> IF k = MissedEvents THEN 3 ELSE 0,
           channel |-> 0] : k \in EventKind \ {TimeTag}}

RECURSIVE ShapeSeqs(_)
ShapeSeqs(n) ==
    IF n = 0 THEN {<<>>}
    ELSE LET shorter == ShapeSeqs(n - 1)
         IN shorter \cup {Append(s, t) : s \in {u \in shorter : Len(u) = n - 1},
                                          t \in TagShapes}

\* the i-th tag of the acquisition carries the time 10*i
Stamp(shapes) ==
    [i \in 1 .. Len(shapes) |->
        [type |-> shapes[i].type, missed_events |-> shapes[i].missed_events,
         channel |-> shapes[i].channel, time |-> 10 * i]]

\* the value an Arrow array of the given type reads from the buffer it is
\* handed: pa.uint8() keeps 8 bits, pa.uint16() keeps 16 bits.  Every
\* integer of the model fits pa.int32() and pa.int64(), which keep it as is.
\* a narrowing that keeps two bits only
as_uint8_two_bits(x) == x % 4
as_uint8(x) == x % 256
as_uint16(x) == x % 65536
as_int32(x) == x
as_int64(x) == x

\* the four columns of convert_tags_to_recordbatch
col_type_(incoming_tags) ==
    [i \in 1 .. Len(incoming_tags) |-> as_uint8(incoming_tags[i].type)]
col_missed_events(incoming_tags) ==
    [i \in 1 .. Len(incoming_tags) |-> as_uint16(incoming_tags[i].missed_events)]
\* a channel column that misses the last row
col_channel_short(incoming_tags) ==
    [i \in 1 .. Len(incoming_tags) - 1 |-> as_int32(incoming_tags[i].channel)]
col_channel(incoming_tags) ==
    [i \in 1 .. Len(incoming_tags) |-> as_int32(incoming_tags[i].channel)]
\* a time column filled from the last row backwards
col_time_reversed(incoming_tags) ==
    [i \in 1 .. Len(incoming_tags) |->
        as_int64(incoming_tags[Len(incoming_tags) + 1 - i].time)]
col_time(incoming_tags) ==
    [i \in 1 .. Len(incoming_tags) |-> as_int64(incoming_tags[i].time)]

convert_tags_to_recordbatch(incoming_tags) ==
    [msg |-> "batch",
     type_ |-> col_type_(incoming_tags),
     missed_events |-> col_missed_events(incoming_tags),
     channel |-> col_channel(incoming_tags),
     time |-> col_time(incoming_tags)]

\* the schema message pa.ipc.new_stream puts first on its sink
schema ==
    [msg |-> "schema", type_ |-> <<>>, missed_events |-> <<>>,
     channel |-> <<>>, time |-> <<>>]
test_batch == convert_tags_to_recordbatch(<<>>)

\* a write that puts the batch in front of what was written
stream_write_front(stream, batch) == <<batch>> \o stream
\* self.stream.write(batch)
stream_write(stream, batch) == Append(stream, batch)

\* a stream opened without announcing its schema
init_stream_without_schema == <<test_batch>>
\* what init_stream_and_schema has written when it returns: the stream is
\* opened on the accepted connection with the schema, then test_batch
init_stream_and_schema == stream_write(<<schema>>, test_batch)

\* a process that writes every block
has_tags_always(incoming_tags) == TRUE
\* process: if len(incoming_tags) > 0
has_tags(incoming_tags) == Len(incoming_tags) > 0

\* the storage np.ascontiguousarray(incoming_tags[name]) hands to
\* pa.py_buffer.  A field of the structured tag array is a strided view of
\* the caller's storage; numpy takes a view of at most one element for
\* contiguous and returns it as it is, and copies a longer one.
np_ascontiguousarray(incoming_tags) ==
    IF Len(incoming_tags) <= 1 THEN "incoming_tags" ELSE "copy"
\* the storages the Arrow buffers of the record batch wrap (pa.py_buffer and
\* from_buffers copy nothing)
batch_buffers(incoming_tags) == {np_ascontiguousarray(incoming_tags)}
\* a writer that queues the batch and serialises it later
stream_write_queued(buffers) == buffers
\* the storages self.stream still refers to when write returns: the batch
\* has been serialised into the socket file, none
stream_write_retains(buffers) == {}
\* what process leaves on the measurement when it returns: batch is a local
\* and no attribute of self is assigned, so only what the stream retained
process_keeps(incoming_tags) ==
    IF has_tags(incoming_tags)
    THEN stream_write_retains(batch_buffers(incoming_tags))
    ELSE {}

InitRT ==
    /\ tags \in {Stamp(sh) : sh \in ShapeSeqs(MaxTags)}
    /\ rt_pos = 0
    /\ blocks = 0
    /\ rt_pc = "new"
    /\ sink = <<>>
    /\ stream_open = FALSE
    /\ self_refs = {}
    /\ notRTIdle

\* RealTimeRendering.__init__ up to finalize_init
RealTimeRendering_init ==
    /\ rt_pc = "new"
    /\ sink' = init_stream_and_schema
    /\ stream_open' = TRUE
    /\ rt_pc' = "ready"
    /\ UNCHANGED <<tags, rt_pos, blocks, self_refs, notRT>>

\* RealTimeRendering.process, called by the backend with the next n tags
\* (a data block may hold no tag at all)
process(n) ==
    /\ rt_pc = "ready"
    /\ blocks < MaxBlocks
    /\ n <= Len(tags) - rt_pos
    /\ LET incoming_tags == SubSeq(tags, rt_pos + 1, rt_pos + n)
       IN /\ sink' = IF has_tags(incoming_tags)
                     THEN stream_write(sink, convert_tags_to_recordbatch(incoming_tags))
                     ELSE sink
          /\ self_refs' = self_refs \cup process_keeps(incoming_tags)
    /\ rt_pos' = rt_pos + n
    /\ blocks' = blocks + 1
    /\ UNCHANGED <<tags, rt_pc, stream_open, notRT>>

\* the measurement is stopped (stop(), also called by __del__): the backend
\* calls on_stop, which does nothing, and calls process no more
on_stop ==
    /\ rt_pc = "ready"
    /\ rt_pc' = "stopped"
    /\ UNCHANGED <<tags, rt_pos, blocks, sink, stream_open, self_refs, notRT>>

NextRT ==
    \/ RealTimeRendering_init
    \/ \E n \in 0 .. MaxTags : process(n)
    \/ on_stop

SpecRT == InitRT /\ [][NextRT]_vars

TypeOKRT ==
    /\ rt_pos \in 0 .. Len(tags)
    /\ blocks \in 0 .. MaxBlocks
    /\ rt_pc \in {"new", "ready", "stopped"}
    /\ stream_open \in BOOLEAN
    /\ self_refs \subseteq {"incoming_tags", "copy"}
    /\ \A i \in 1 .. Len(sink) : sink[i].msg \in {"schema", "batch"}

\* ---------------------------------------------------------- properties
\* the column `col` of the data the sink holds, batch after batch
RECURSIVE SinkColumn(_, _)
SinkColumn(q, col) ==
    IF q = <<>> THEN <<>> ELSE Head(q)[col] \o SinkColumn(Tail(q), col)
RECURSIVE SinkRows(_)
SinkRows(q) ==
    IF q = <<>> THEN 0 ELSE Len(Head(q).time) + SinkRows(Tail(q))
\* the validity mask of the design for a block of kinds entered with `open`:
\* 1 for a TimeTag outside every overflow region, 0 for every other row
RECURSIVE DesignMask(_, _)
DesignMask(kinds, open) ==
    IF kinds = <<>> THEN <<>>
    ELSE <<IF Head(kinds) = TimeTag /\ ~open THEN 1 ELSE 0>>
         \o DesignMask(Tail(kinds), OpenAfter(<<Head(kinds)>>, open))
Kinds(block) == [i \in 1 .. Len(block) |-> block[i].type]
Popcount(m) == Cardinality({i \in 1 .. Len(m) : m[i] = 1})
\* a step that is one process call, its block and the mask the design
\* gives that block
ProcessStep == blocks' = blocks + 1
Block == SubSeq(tags, rt_pos + 1, rt_pos')
BlockMask ==
    DesignMask(Kinds(Block), OpenAfter(Kinds(SubSeq(tags, 1, rt_pos)), FALSE))
LastWritten == sink'[Len(sink')]

\* C11: the sink holds nothing before the measurement is constructed; from
\* then on its first message is the schema announcement, it is the only one,
\* and every data batch comes after it.
C11_OneSchemaFirst ==
    /\ rt_pc = "new" => sink = <<>>
    /\ rt_pc \in {"ready", "stopped"} =>
           /\ Len(sink) >= 1
           /\ sink[1].msg = "schema"
           /\ \A i \in 2 .. Len(sink) : sink[i].msg = "batch"
C11_Witness ==
    /\ rt_pc = "ready" /\ blocks >= 2
    /\ \E i \in 1 .. Len(sink) : sink[i].msg = "batch" /\ Len(sink[i].time) > 0

\* C12 as stated: every block handed to process, also one without events,
\* has appended one batch to the sink (the sink holds the two handshake
\* messages and one batch per block).
C12_EveryBlockAppended == rt_pc = "ready" => Len(sink) = 2 + blocks
\* C12 amended: a block with at least one event appends exactly one batch
\* holding the block's rows; a block with no event appends nothing.
C12_NonEmptyBlockAppended ==
    [][ProcessStep =>
           IF rt_pos' > rt_pos
           THEN /\ Len(sink') = Len(sink) + 1
                /\ SubSeq(sink', 1, Len(sink)) = sink
                /\ Len(LastWritten.time) = rt_pos' - rt_pos
           ELSE sink' = sink]_vars
C12_Witness == rt_pc = "ready" /\ blocks >= 2 /\ Len(sink) = 3

\* C13: the rows in the sink are in the order of the process calls that
\* delivered them: the time column read batch after batch is the time of the
\* delivered tags in delivery order.
C13_ArrivalOrder ==
    SinkColumn(sink, "time") = [i \in 1 .. rt_pos |-> tags[i].time]
C13_Witness ==
    /\ Len(sink) >= 4
    /\ Len(sink[3].time) > 0 /\ Len(sink[4].time) > 0

\* C14 as stated: the batch process writes is the block filtered by the
\* validity mask, every column by the same mask and in the block's order.
C14_MaskedFilter ==
    [][(ProcessStep /\ rt_pos' > rt_pos) =>
           /\ LastWritten.type_ = Compress(col_type_(Block), BlockMask)
           /\ LastWritten.missed_events = Compress(col_missed_events(Block), BlockMask)
           /\ LastWritten.channel = Compress(col_channel(Block), BlockMask)
           /\ LastWritten.time = Compress(col_time(Block), BlockMask)]_vars
\* C14 amended: no mask is applied; row j of every output column is taken
\* from row j of the block, so the rows keep their order, stay aligned
\* across the four columns, non-decreasing times stay non-decreasing and no
\* row is dropped or repeated.
C14_RowsKeptInOrder ==
    [][(ProcessStep /\ rt_pos' > rt_pos) =>
           /\ Len(LastWritten.time) = Len(Block)
           /\ \A j \in 1 .. Len(Block) :
                  <<LastWritten.type_[j], LastWritten.missed_events[j],
                    LastWritten.channel[j], LastWritten.time[j]>>
                  = <<Block[j].type, Block[j].missed_events,
                      Block[j].channel, Block[j].time>>
           /\ \A j \in 1 .. Len(Block) - 1 :
                  LastWritten.time[j] <= LastWritten.time[j + 1]]_vars
C14_Witness ==
    \E i \in 1 .. Len(sink) :
        /\ Len(sink[i].time) >= 2
        /\ sink[i].type_[1] # sink[i].type_[2]

\* C15 as stated: the four columns of a written batch have the length of the
\* popcount of the block's validity mask.
C15_LengthIsPopcount ==
    [][(ProcessStep /\ rt_pos' > rt_pos) =>
           /\ Len(LastWritten.type_) = Popcount(BlockMask)
           /\ Len(LastWritten.missed_events) = Popcount(BlockMask)
           /\ Len(LastWritten.channel) = Popcount(BlockMask)
           /\ Len(LastWritten.time) = Popcount(BlockMask)]_vars
\* C15 amended: the four columns of every batch in the sink have one and
\* the same length, and the batches together hold as many rows as tags were
\* delivered (every delivered event, none removed by a mask).
C15_FourEqualLengths ==
    /\ \A i \in 1 .. Len(sink) :
           /\ Len(sink[i].type_) = Len(sink[i].time)
           /\ Len(sink[i].missed_events) = Len(sink[i].time)
           /\ Len(sink[i].channel) = Len(sink[i].time)
    /\ SinkRows(sink) = rt_pos
C15_Witness ==
    /\ rt_pos >= 2
    /\ \E i \in 1 .. rt_pos : tags[i].type # TimeTag
    /\ \E i \in 1 .. Len(sink) : Len(sink[i].channel) >= 1

\* C16: reading the four columns back from the sink gives the delivered
\* kind, missed_events, channel and time arrays exactly; the 8-bit type_
\* column holds each of the five kinds 0..4 unchanged.
C16_RoundTrip ==
    /\ SinkColumn(sink, "type_") = [i \in 1 .. rt_pos |-> tags[i].type]
    /\ SinkColumn(sink, "missed_events") = [i \in 1 .. rt_pos |-> tags[i].missed_events]
    /\ SinkColumn(sink, "channel") = [i \in 1 .. rt_pos |-> tags[i].channel]
    /\ SinkColumn(sink, "time") = [i \in 1 .. rt_pos |-> tags[i].time]
C16_Witness ==
    \E i \in 1 .. Len(sink) : \E j \in 1 .. Len(sink[i].type_) :
        /\ sink[i].type_[j] = MissedEvents
        /\ sink[i].missed_events[j] = 3

\* ======================================================================
\* run_tagger / set_tt_for_demuxing: demultiplexing with hardware gates
\* ======================================================================
\* most demultiplexed channels of a configuration (config['demux']['periods'])
MaxPeriods == 4
\* events on the gated input are observed on a grid of 50 ps, and 1 ps
\* before each grid point, up to MaxTick grid points
MaxTick == 50

LaserPeriods == {1000, 1200}
EventTimes ==
    {k * 50 : k \in 0 .. MaxTick} \cup {k * 50 - 1 : k \in 1 .. MaxTick}

\* set_tt_for_demuxing: the delay of every DelayedChannel of the laser
\* channel, in creation order
delay_in_ps(cfg) == cfg.period \div cfg.periods
set_delayed_channels(cfg) ==
    <<delay_in_ps(cfg)>>
    \o [period \in 1 .. cfg.periods - 1 |-> delay_in_ps(cfg) * period]

\* set_tt_for_demuxing: the GatedChannels; start and stop name the
\* DelayedChannel (its place in delayed_channels) that opens and closes it
set_new_channels(delayed) ==
    [idx \in 1 .. Len(delayed) - 1 |-> [start |-> idx, stop |-> idx + 1]]
    \o <<[start |-> Len(delayed), stop |-> 1]>>

\* Time Tagger virtual channels.  A DelayedChannel repeats every laser edge
\* `delay` later; the laser edges are first_edge + k * period.  The time of
\* the latest event of such a channel at or before t, -1 when there is none.
LastEvent(delay, t) ==
    IF t < first_edge + delay THEN 0 - 1
    ELSE first_edge + delay
         + ((t - first_edge - delay) \div config.period) * config.period

\* a GatedChannel that is open when it is created
GateOpen_initially_open(g, t) ==
    LET ls == LastEvent(delayed_channels[g.start], t)
        lc == LastEvent(delayed_channels[g.stop], t)
    IN \/ ls = 0 - 1
       \/ lc = 0 - 1
       \/ ls > lc
       \/ ls = lc /\ ((g.stop < g.start) <=> creation_order)

\* A GatedChannel is closed when it is created, opens at an event of its
\* start channel and closes at an event of its stop channel; it has seen
\* the gate events at time t when an input event at time t arrives.  When
\* start and stop fall together the later handled of the two decides.
GateOpen(g, t) ==
    LET ls == LastEvent(delayed_channels[g.start], t)
        lc == LastEvent(delayed_channels[g.stop], t)
    IN /\ ls # 0 - 1
       /\ \/ lc = 0 - 1
          \/ ls > lc
          \/ ls = lc /\ ((g.stop < g.start) <=> creation_order)

Tag(kind, idx, t) ==
    [kind |-> kind, idx |-> idx, type |-> TimeTag, missed_events |-> 0, time |-> t]

\* a gate that moves the event to its own channel instead of copying it
DeliveredTags_relabelled(t) ==
    LET open == {j \in 1 .. Len(new_channels) : GateOpen(new_channels[j], t)}
    IN IF open = {} THEN {Tag("input", 0, t)}
       ELSE {Tag("gated", i - 1, t) : i \in open}

\* the tags the backend hands to the measurement for one event at time t on
\* the gated input: the event itself on its physical channel (run_tagger
\* registers it) and one tag on every GatedChannel that is open
DeliveredTags(t) ==
    {Tag("input", 0, t)}
    \cup {Tag("gated", i - 1, t) : i \in {j \in 1 .. Len(new_channels) :
                                              GateOpen(new_channels[j], t)}}

InitDemux ==
    /\ config \in [period : LaserPeriods, periods : 2 .. MaxPeriods,
                   demultiplex : BOOLEAN]
    /\ first_edge \in {0, 500}
    /\ creation_order \in BOOLEAN
    /\ dm_pc = "setup"
    /\ delayed_channels = <<>>
    /\ new_channels = <<>>
    /\ dm_now = 0 - 1
    /\ dm_out = {}
    /\ notDemuxIdle

\* run_tagger up to measure_group.startFor
run_tagger ==
    /\ dm_pc = "setup"
    /\ IF config.demultiplex
       THEN /\ delayed_channels' = set_delayed_channels(config)
            /\ new_channels' = set_new_channels(set_delayed_channels(config))
       ELSE UNCHANGED <<delayed_channels, new_channels>>
    /\ dm_pc' = "measuring"
    /\ UNCHANGED <<config, first_edge, creation_order, dm_now, dm_out,
                   notDemux>>

\* an event on the gated input at time t reaches the measurement
input_event(t) ==
    /\ dm_pc = "measuring"
    /\ t > dm_now
    /\ dm_now' = t
    /\ dm_out' = DeliveredTags(t)
    /\ UNCHANGED <<config, first_edge, creation_order, dm_pc,
                   delayed_channels, new_channels, notDemux>>

NextDemux ==
    \/ run_tagger
    \/ \E t \in EventTimes : input_event(t)

SpecDemux == InitDemux /\ [][NextDemux]_vars

\* ---------------------------------------------------------- properties
Seen == dm_pc = "measuring" /\ dm_now >= 0
Gated == {tag.idx : tag \in {x \in dm_out : x.kind = "gated"}}
slice_width == config.period \div config.periods
Phase == (dm_now - first_edge) % config.period

\* C17: the gates partition the reference period into equal slices: from
\* the second laser period on, an event at phase offset p is passed by the
\* gate of slice p / slice_width and by no other gate.
C17_EqualSlices ==
    (/\ Seen /\ config.demultiplex
     /\ config.period % config.periods = 0
     /\ dm_now >= first_edge + config.period)
        => Gated = {Phase \div slice_width}

\* C18: with a period of 1000 ps, 4 channels and the first reference edge at
\* 0, the events at 0, 250, 500 and 999 ps are passed on logical channels
\* 0, 1, 2 and 3, and the event at 1000 ps on channel 0 again.
C18_Example ==
    (/\ Seen /\ config.demultiplex
     /\ config.period = 1000 /\ config.periods = 4 /\ first_edge = 0)
        => /\ dm_now = 0 => Gated = {0}
           /\ dm_now = 250 => Gated = {1}
           /\ dm_now = 500 => Gated = {2}
           /\ dm_now = 999 => Gated = {3}
           /\ dm_now = 1000 => Gated = {0}

\* C19 as stated: an event on the gated input that arrives before any
\* reference edge is dropped: no tag is delivered for it.
C19_UnsyncDropped ==
    (Seen /\ config.demultiplex /\ dm_now < first_edge) => dm_out = {}
\* C19 amended: such an event is passed by no gate (it gets no logical
\* channel) and is delivered once, on its physical channel.
C19_NoGateBeforeFirstEdge ==
    (Seen /\ config.demultiplex /\ dm_now < first_edge)
        => dm_out = {Tag("input", 0, dm_now)}
C19_Witness == Seen /\ config.demultiplex /\ dm_now < first_edge

\* C20 as stated: demultiplexing relabels rows only: one event is still one
\* row.
C20_OnlyRelabelled == Seen => Cardinality(dm_out) = 1
\* C20 amended: the event's own row is delivered unchanged on its physical
\* channel; demultiplexing adds one TimeTag row of the same time for every
\* gate that is open, and without demultiplexing nothing is added.
C20_RowsAddedNotChanged ==
    Seen =>
        /\ Tag("input", 0, dm_now) \in dm_out
        /\ \A tag \in dm_out :
               /\ tag.time = dm_now /\ tag.type = TimeTag /\ tag.missed_events = 0
               /\ tag.kind = "gated" => tag.idx \in 0 .. config.periods - 1
        /\ ~config.demultiplex => dm_out = {Tag("input", 0, dm_now)}
C20_Witness == Seen /\ Gated # {}

\* =====================================================================
\* infer_channel_list_from_cfg (call_timetagger.py)
\* =====================================================================

\* the keys infer_channel_list_from_cfg reads, in the order it reads them
ChannelKeys ==
    <<"pmt1_ch", "pmt2_ch", "pmt3_ch", "pmt4_ch",
      "laser_ch", "frame_ch", "line_ch", "taglens_ch">>

\* the configurations of the model: the i-th key is unused (channel 0) or
\* wired to input i, on its rising (i) or its falling (-i) edge
KeyIndex(key) == CHOOSE i \in 1 .. Len(ChannelKeys) : ChannelKeys[i] = key
Configs ==
    {[key \in {ChannelKeys[i] : i \in 1 .. Len(ChannelKeys)} |->
         [channel |-> edge[KeyIndex(key)] * KeyIndex(key), threshold |-> 1]] :
     edge \in [1 .. Len(ChannelKeys) -> {0, 1, 0 - 1}]}

relevant_channels(cfg) ==
    [i \in 1 .. Len(ChannelKeys) |-> cfg[ChannelKeys[i]]]

\* a selection that keeps rising-edge channels only
is_used_rising_only(ch) == ch.channel > 0
\* the condition of the list comprehension: ch["channel"] != 0
is_used(ch) == ch.channel # 0

infer_channel_list_from_cfg(cfg) == SelectSeq(relevant_channels(cfg), is_used)

InitInfer ==
    /\ pysight_cfg \in Configs
    /\ channels_list = <<>>
    /\ infer_pc = "call"
    /\ notInferIdle

\* channels = infer_channel_list_from_cfg(config), as run_tagger calls it
call_infer_channel_list ==
    /\ infer_pc = "call"
    /\ channels_list' = infer_channel_list_from_cfg(pysight_cfg)
    /\ infer_pc' = "returned"
    /\ UNCHANGED <<pysight_cfg, notInfer>>

NextInfer == call_infer_channel_list

SpecInfer == InitInfer /\ [][NextInfer]_vars

\* ---------------------------------------------------------- properties
\* the positions of the keys configured with a non-zero channel, and the
\* j-th smallest of them
UsedKeys == {i \in 1 .. Len(ChannelKeys) : pysight_cfg[ChannelKeys[i]].channel # 0}
NthUsedKey(j) ==
    CHOOSE i \in UsedKeys : Cardinality({k \in UsedKeys : k < i}) = j - 1

C22_StoppedClosesTransport == rt_pc = "stopped" => ~stream_open

MaxCalls == 3
\* most tags of one data block
MaxBlockLen == 2
\* number of histogram bins the model is built with (n_bins)
MaxBins == 3

\* np.zeros((self.max_bins,), dtype=np.uint64)
np_zeros(n) == UInt64Array([i \in 1 .. n |-> 0])
\* a getData that hands out self.data itself
np_no_copy(a) == [returned |-> TRUE, owndata |-> FALSE, data |-> a.data]
\* self.data.copy(): a new array that owns its storage
np_copy(a) == [returned |-> TRUE, owndata |-> TRUE, data |-> a.data]

\* a lock that never blocks
can_lock_always == TRUE
\* self._lock() blocks until no other thread holds the measurement lock
can_lock == lock = "free"

\* after CustomStartMultipleStop.__init__ (clear_impl, finalize_init) and
\* before the measurement delivers data
InitCsms ==
    /\ lock = "free"
    /\ backend_pc = "idle"
    /\ reader_pc = "idle"
    /\ data = np_zeros(MaxBins)
    /\ last_start_timestamp = 0
    /\ arr = [returned |-> FALSE, owndata |-> TRUE, data |-> <<>>]
    /\ stdout = <<>>
    /\ notCsmsIdle

\* the backend thread takes the measurement lock before it calls into the
\* measurement ("The lock is already acquired within the backend")
backend_lock ==
    /\ backend_pc = "idle"
    /\ Len(stdout) < MaxCalls
    /\ can_lock
    /\ lock' = "backend"
    /\ backend_pc' = "locked"
    /\ UNCHANGED <<reader_pc, data, last_start_timestamp, arr, stdout, notCsms>>

\* CustomStartMultipleStop.process on a block of n tags: the call to
\* fast_process is commented out, the body prints len(incoming_tags)
csms_process(n) ==
    /\ backend_pc = "locked"
    /\ stdout' = Append(stdout, n)
    /\ backend_pc' = "called"
    /\ UNCHANGED <<lock, reader_pc, data, last_start_timestamp, arr, notCsms>>

\* clear(): the backend calls clear_impl with the lock held
clear_impl ==
    /\ backend_pc = "locked"
    /\ last_start_timestamp' = 0
    /\ data' = np_zeros(MaxBins)
    /\ backend_pc' = "called"
    /\ UNCHANGED <<lock, reader_pc, arr, stdout, notCsms>>

\* the callback returned: the backend releases the lock
backend_unlock ==
    /\ backend_pc = "called"
    /\ lock' = "free"
    /\ backend_pc' = "idle"
    /\ UNCHANGED <<reader_pc, data, last_start_timestamp, arr, stdout, notCsms>>

\* getData, statement by statement, on the reader thread
getData_lock ==
    /\ reader_pc = "idle"
    /\ can_lock
    /\ lock' = "reader"
    /\ reader_pc' = "locked"
    /\ UNCHANGED <<backend_pc, data, last_start_timestamp, arr, stdout, notCsms>>

getData_copy ==
    /\ reader_pc = "locked"
    /\ arr' = np_copy(data)
    /\ reader_pc' = "copied"
    /\ UNCHANGED <<lock, backend_pc, data, last_start_timestamp, stdout, notCsms>>

getData_unlock ==
    /\ reader_pc = "copied"
    /\ lock' = "free"
    /\ reader_pc' = "idle"
    /\ UNCHANGED <<backend_pc, data, last_start_timestamp, arr, stdout, notCsms>>

NextCsms ==
    \/ backend_lock
    \/ \E n \in 0 .. MaxBlockLen : csms_process(n)
    \/ clear_impl
    \/ backend_unlock
    \/ getData_lock
    \/ getData_copy
    \/ getData_unlock

SpecCsms == InitCsms /\ [][NextCsms]_vars

TypeOKCsms ==
    /\ lock \in {"free", "backend", "reader"}
    /\ backend_pc \in {"idle", "locked", "called"}
    /\ reader_pc \in {"idle", "locked", "copied"}
    /\ Len(stdout) <= MaxCalls

\* ---------------------------------------------------------- properties
\* C24: getData reads self.data only while the backend thread is outside
\* process and clear_impl, each thread is inside exactly while it holds the
\* lock, the lock is not held by the reader once getData has returned, and
\* the array getData returns is a copy that owns its storage.
C24_GetDataExclusive ==
    /\ ~(reader_pc \in {"locked", "copied"} /\ backend_pc \in {"locked", "called"})
    /\ (lock = "reader") <=> (reader_pc \in {"locked", "copied"})
    /\ (lock = "backend") <=> (backend_pc \in {"locked", "called"})
    /\ arr.returned => (arr.owndata /\ arr.data = data.data)
\* getData has returned a histogram after a process call, and the backend
\* is inside the next callback
C24_Witness ==
    /\ reader_pc = "idle" /\ arr.returned
    /\ Len(stdout) >= 1
    /\ backend_pc = "called"

\* =====================================================================
\* CustomStartMultipleStop.fast_process: the start-stop histogram
\* =====================================================================
\* most tags of the block handed to fast_process
MaxFastTags == 4

CHAN_START == 1
CHAN_STOP == 2
BINWIDTH == 1

\* the tags of the block: TimeTag and MissedEvents rows on the start and the
\* click channel, OverflowBegin rows on no channel; the i-th tag carries the
\* time i + 1 ps
FastShapes ==
    {[type |-> k, channel |-> c] : k \in {TimeTag, MissedEvents},
                                   c \in {CHAN_START, CHAN_STOP}}
    \cup {[type |-> OverflowBegin, channel |-> 0]}
RECURSIVE FastShapeSeqs(_)
FastShapeSeqs(n) ==
    IF n = 0 THEN {<<>>}
    ELSE LET shorter == FastShapeSeqs(n - 1)
         IN shorter \cup {Append(s, t) : s \in {u \in shorter : Len(u) = n - 1},
                                          t \in FastShapes}
FastStamp(shapes) ==
    [i \in 1 .. Len(shapes) |->
        [type |-> shapes[i].type, channel |-> shapes[i].channel, time |-> i + 1]]

\* data[index] += 1 (index counts from 0)
Increment(a, index) ==
    UInt64Array([i \in 1 .. Len(a.data) |->
                    IF i = index + 1 THEN a.data[i] + 1 ELSE a.data[i]])

\* one iteration of the for loop of fast_process: the if / elif, then the
\* separate if on the start channel
fast_process_tag(tag, d, click_channel, start_channel, binwidth, last) ==
    LET index == (tag.time - last) \div binwidth
        after_if ==
            IF tag.type # 0
            THEN [data |-> d, last_start_timestamp |-> 0]
            ELSE IF tag.channel = click_channel /\ last # 0
            THEN [data |-> IF index < Len(d.data) THEN Increment(d, index) ELSE d,
                  last_start_timestamp |-> last]
            ELSE [data |-> d, last_start_timestamp |-> last]
    IN IF tag.channel = start_channel
       THEN [data |-> after_if.data, last_start_timestamp |-> tag.time]
       ELSE after_if

\* fast_process is entered with a cleared histogram and the
\* last_start_timestamp the previous block left: 0, or a start at 1 ps
InitFast ==
    /\ fp_tags \in {FastStamp(sh) : sh \in FastShapeSeqs(MaxFastTags)}
    /\ fp_i = 0
    /\ fp_data = np_zeros(MaxBins)
    /\ fp_last \in {0, 1}
    /\ fp_pc = "loop"
    /\ notFastIdle

fast_process_step ==
    /\ fp_pc = "loop"
    /\ fp_i < Len(fp_tags)
    /\ LET r == fast_process_tag(fp_tags[fp_i + 1], fp_data, CHAN_STOP,
                                 CHAN_START, BINWIDTH, fp_last)
       IN /\ fp_data' = r.data
          /\ fp_last' = r.last_start_timestamp
    /\ fp_i' = fp_i + 1
    /\ UNCHANGED <<fp_tags, fp_pc, notFast>>

\* return last_start_timestamp
fast_process_return ==
    /\ fp_pc = "loop"
    /\ fp_i = Len(fp_tags)
    /\ fp_pc' = "returned"
    /\ UNCHANGED <<fp_tags, fp_i, fp_data, fp_last, notFast>>

NextFast ==
    \/ fast_process_step
    \/ fast_process_return

SpecFast == InitFast /\ [][NextFast]_vars

\* ---------------------------------------------------------- properties
FastStep == fp_i' = fp_i + 1
FastTag == fp_tags[fp_i']
FastIndex == (FastTag.time - fp_last) \div BINWIDTH
Bumped == {b \in 1 .. MaxBins : fp_data'.data[b] # fp_data.data[b]}

\* C26 as stated: handling a tag that is not a TimeTag leaves
\* last_start_timestamp at 0; a tag changes the histogram only when it is a
\* TimeTag on the click channel met with last_start_timestamp # 0 and a bin
\* index below the number of bins; and a tag adds one to at most one bin.
C26_ErrorStateResets ==
    [][FastStep =>
           /\ FastTag.type # TimeTag => fp_last' = 0
           /\ Bumped # {} =>
                  /\ FastTag.type = TimeTag /\ FastTag.channel = CHAN_STOP
                  /\ fp_last # 0 /\ FastIndex < MaxBins
           /\ Cardinality(Bumped) <= 1
           /\ \A b \in Bumped : fp_data'.data[b] = fp_data.data[b] + 1]_vars

====
